---- MODULE Spec2Model ----
(***************************************************************************)
(* State-machine model of the GLFW bridge of src/src/lib.rs: the process-  *)
(* wide state (a Mutex around an optional GlfwState), the eight bridge     *)
(* functions published by _aegis_register, and the host threads that call  *)
(* them.  Each bridge function is cut into steps at the points where       *)
(* another thread can observe or interleave with it: the work done before  *)
(* State.lock(), the acquisition of the lock, and the statements executed  *)
(* while the MutexGuard is alive (the guard is dropped at the return).     *)
(***************************************************************************)
EXTENDS Integers, Sequences, FiniteSets, TLC

\* ---------------------------------------------------------------- bounds
MaxIssued == 2        \* handles returned by glfw_create_window over the run
MaxInits  == 2        \* contexts produced by glfw::init over the run
MaxInputs == 1        \* platform events the user causes over the run

\* The host threads that call into the bridge.
Threads == {1, 2}

\* ------------------------------------------------------- host values
\* aegis_core::Value, with the variants the bridge consumes and produces.
Integer(i) == [tag |-> "Integer", v |-> i]
Boolean(b) == [tag |-> "Boolean", v |-> IF b THEN 1 ELSE 0]
Float(x)   == [tag |-> "Float",   v |-> x]
Str(s)     == [tag |-> "String",  v |-> s]
Null       == [tag |-> "Null",    v |-> 0]

\* Result<Value, String>; a panic unwinds instead of returning.
Ok(val)  == [kind |-> "Ok",    tag |-> val.tag, v |-> val.v]
Err(e)   == [kind |-> "Err",   tag |-> e,       v |-> 0]
Panicked == [kind |-> "Panic", tag |-> "index out of bounds", v |-> 0]
NoResult == [kind |-> "None",  tag |-> "",      v |-> 0]

\* The error strings of the bridge, named after the error taxonomy.
NotInitializedError == "GLFW not initialized"
WindowCreationError == "Failed to create GLFW window"
BackendInitError    == "GLFW Init Error"
ArityError          == "Args"
VariantError        == "wrong variant"
ArgumentErrors      == {ArityError, VariantError}

\* Value::as_int / Value::as_str succeed on their own variant only.
as_int_ok(val) == val.tag = "Integer"
as_str_ok(val) == val.tag = "String"

\* `as usize` on an i64: two's-complement reinterpretation.  The word is
\* scaled to UsizeBits bits so that the arithmetic stays inside TLC's
\* integers; a negative handle lands far above every handle ever issued.
UsizeBits == 16
as_usize(i) == i % (2 ^ UsizeBits)

\* `as i32` on an i64: truncation to the low word, read as signed (the word
\* scaled like usize).
as_i32(i) == ((i + 2 ^ (UsizeBits - 1)) % (2 ^ UsizeBits)) - 2 ^ (UsizeBits - 1)

\* Key codes: one legal glfw::Key discriminant and one integer that is no
\* discriminant of the enum.
KeyA   == 65
BadKey == 7
LegalKeys == {KeyA}

\* The address of glfw::ffi::glfwGetProcAddress.
ProcAddress == 4096

\* --------------------------------------------------- argument lists
GoodCreateArgs == <<Integer(800), Integer(600), Str(1)>>
CreateArgs == {GoodCreateArgs, <<>>, <<Integer(800), Integer(600), Integer(3)>>}
HandleValues == {-1, 1, 2}
HandleArgs == {<<Integer(h)>> : h \in HandleValues}
                \cup {<<>>, <<Str(1)>>, <<Integer(1), Integer(KeyA)>>}
KeyArgs == {<<Integer(h), Integer(k)>> : h \in HandleValues, k \in {KeyA, BadKey}}
             \cup {<<Integer(1)>>, <<Integer(1), Str(1)>>}

\* ------------------------------------------------------------ state
VARIABLES
    State,     \* the contents of the Mutex: None or Some(GlfwState)
    lock,      \* 0 when the Mutex is free, else the thread holding the guard
    pc,        \* per thread: the step of the bridge function it is at
    op,        \* per thread: the bridge function it is executing
    local,     \* per thread: the locals of the running bridge function
    result,    \* per thread: the value its function is about to return
    pending,   \* the platform event the backend has not yet polled
    inputs,    \* history: platform events the user has caused so far
    ctxCount,  \* history: Glfw contexts produced by glfw::init so far
    issued,    \* history: the handles returned to the host, in order
    epoch,     \* history: how many handles had been returned when the
               \* GlfwState now in STATE was stored
    map        \* the host's table of native functions, by name

vars == <<State, lock, pc, op, local, result, pending, inputs, ctxCount, issued, epoch,
          map>>

\* Option<ThreadSafeState>.  The `context: Glfw` field is a token without
\* data of its own; the contexts created are counted in ctxCount.
None == [some |-> FALSE, windows |-> <<>>, next_id |-> 0]
GlfwState(w, n) == [some |-> TRUE, windows |-> w, next_id |-> n]

\* A native window as the backend sees it: its close flag and the state of
\* the tracked key (glfw::Action).
NewWindow == [should_close |-> FALSE, key |-> "Release"]
Actions   == {"Release", "Press", "Repeat"}

NoEvent == [win |-> 0, ev |-> "none"]
EventKinds == {"close", "Press", "Release", "Repeat"}

NoLocals == [id |-> 0, key |-> 0, dirty |-> FALSE]

\* HashMap<String, NativeFn>: a function from names to native functions,
\* each native function written as the name of its fn item.
EmptyMap == <<>>
insert(m, k, v) == [x \in DOMAIN m \cup {k} |-> IF x = k THEN v ELSE m[x]]

\* Native functions of the host itself, and the names it uses for them.
HostFns   == {"host_print", "host_len"}
HostNames == {"print", "len"}

\* The table the host passes to _aegis_register at load time.
LoadTimeMap == insert(EmptyMap, "print", "host_print")

\* Faulty variant of Registrations: glfw_swap_buffers is bound to the
\* function of the line above it.
Registrations_swap_bound_to_poll ==
    << <<"glfw_init", "glfw_init">>,
       <<"glfw_create_window", "glfw_create_window">>,
       <<"glfw_window_should_close", "glfw_window_should_close">>,
       <<"glfw_poll_events", "glfw_poll_events">>,
       <<"glfw_swap_buffers", "glfw_poll_events">>,
       <<"glfw_get_proc_address", "glfw_get_proc_address">>,
       <<"glfw_get_key", "glfw_get_key">>,
       <<"glfw_get_time", "glfw_get_time">> >>

\* The inserts of _aegis_register, in order: name and function.
Registrations ==
    << <<"glfw_init", "glfw_init">>,
       <<"glfw_create_window", "glfw_create_window">>,
       <<"glfw_window_should_close", "glfw_window_should_close">>,
       <<"glfw_poll_events", "glfw_poll_events">>,
       <<"glfw_swap_buffers", "glfw_swap_buffers">>,
       <<"glfw_get_proc_address", "glfw_get_proc_address">>,
       <<"glfw_get_key", "glfw_get_key">>,
       <<"glfw_get_time", "glfw_get_time">> >>

\* The table after the first n inserts of _aegis_register on table m.
RECURSIVE register_upto(_, _)
register_upto(m, n) ==
    IF n = 0 THEN m
    ELSE insert(register_upto(m, n - 1), Registrations[n][1], Registrations[n][2])

\* The table _aegis_register leaves behind when given table m.
register(m) == register_upto(m, Len(Registrations))

Init ==
    /\ State = None
    /\ lock = 0
    /\ pc = [t \in Threads |-> "idle"]
    /\ op = [t \in Threads |-> "none"]
    /\ local = [t \in Threads |-> NoLocals]
    /\ result = [t \in Threads |-> NoResult]
    /\ pending = NoEvent
    /\ inputs = 0
    /\ ctxCount = 0
    /\ issued = <<>>
    /\ epoch = 0
    /\ map = register(LoadTimeMap)   \* the library has been loaded

\* The process is running: no thread has brought it down.
Alive == \A u \in Threads : pc[u] # "aborted"

\* Thread t stands at step l of a bridge function.
At(t, l) == Alive /\ pc[t] = l

\* A thread may start a call when it is between calls.
CanCall(t) == At(t, "idle")

\* The call of thread t has changed the guarded state, in an earlier step
\* or in this one.
Touches(t) == local[t].dirty \/ State' # State

\* The host finds bridge function f under its own name in its table.
Resolves(f) == f \in DOMAIN map /\ map[f] = f

\* Entry into bridge function f with locals l, continuing at step next.
Begin(t, f, next, l) ==
    /\ Resolves(f)
    /\ op' = [op EXCEPT ![t] = f]
    /\ pc' = [pc EXCEPT ![t] = next]
    /\ local' = [local EXCEPT ![t] = l]
    /\ UNCHANGED <<State, lock, result, pending, inputs, ctxCount, issued, epoch, map>>

\* A bridge function whose argument checks end it before it has touched
\* the Mutex: it is about to return r, or it unwinds.
Reject(t, f, r) ==
    /\ Resolves(f)
    /\ op' = [op EXCEPT ![t] = f]
    /\ pc' = [pc EXCEPT ![t] = IF r.kind = "Panic" THEN "panicked" ELSE "ret"]
    /\ result' = [result EXCEPT ![t] = r]
    /\ UNCHANGED <<State, lock, local, pending, inputs, ctxCount, issued, epoch, map>>

\* The function has evaluated its return value r; the guard, if it holds
\* one, is still alive.  (State' is set by the caller of this operator.)
Finish(t, r) ==
    /\ pc' = [pc EXCEPT ![t] = "ret"]
    /\ result' = [result EXCEPT ![t] = r]
    /\ local' = [local EXCEPT ![t].dirty = Touches(t)]
    /\ UNCHANGED <<op, lock>>

\* Move of thread t to step next with locals l.
Goto(t, next, l) ==
    /\ pc' = [pc EXCEPT ![t] = next]
    /\ local' = [local EXCEPT ![t] = [l EXCEPT !.dirty = Touches(t)]]
    /\ UNCHANGED <<op, result>>

\* The function returns: its MutexGuard, if it holds one, is dropped and
\* the host receives the result.
Return(t) ==
    /\ At(t, "ret")
    /\ pc' = [pc EXCEPT ![t] = "idle"]
    /\ op' = [op EXCEPT ![t] = "none"]
    /\ result' = [result EXCEPT ![t] = NoResult]
    /\ local' = [local EXCEPT ![t] = NoLocals]
    /\ lock' = IF lock = t THEN 0 ELSE lock
    /\ issued' = IF op[t] = "glfw_create_window" /\ result[t].kind = "Ok"
                 THEN Append(issued, result[t].v)
                 ELSE issued
    /\ UNCHANGED <<State, pending, inputs, ctxCount, epoch, map>>

\* ------------------------------------------------- STATE.lock().unwrap()
\* The step each function continues with once it holds the guard.
AfterLock ==
    [l \in {"init_lock", "cw_lock", "sc_lock", "sb_lock", "pe_lock", "gk_lock", "gt_lock"} |->
        CASE l = "init_lock" -> "init_store"
          [] l = "cw_lock"   -> "cw_native"
          [] l = "sc_lock"   -> "sc_body"
          [] l = "sb_lock"   -> "sb_body"
          [] l = "pe_lock"   -> "pe_body"
          [] l = "gk_lock"   -> "gk_body"
          [] l = "gt_lock"   -> "gt_body"]

\* Faulty variant of Lock: the guard is handed out although another thread
\* holds it.
Lock_no_exclusion(t) ==
    /\ Alive
    /\ pc[t] \in DOMAIN AfterLock
    /\ lock' = t
    /\ pc' = [pc EXCEPT ![t] = AfterLock[pc[t]]]
    /\ UNCHANGED <<State, op, local, result, pending, inputs, ctxCount, issued, epoch, map>>

\* Mutex::lock blocks until the Mutex is free, then hands out the guard.
\* No function panics while holding the guard, so the Mutex is never
\* poisoned and unwrap() never fails.
Lock(t) ==
    /\ Alive
    /\ pc[t] \in DOMAIN AfterLock
    /\ lock = 0
    /\ lock' = t
    /\ pc' = [pc EXCEPT ![t] = AfterLock[pc[t]]]
    /\ UNCHANGED <<State, op, local, result, pending, inputs, ctxCount, issued, epoch, map>>

\* ------------------------------------------------------------ glfw_init
\* Threads that are inside glfw::init, about to produce a context.
\* _aegis_register(map): the host loads the library, or loads it again.
\* STATE is not touched.
aegis_register ==
    /\ Alive
    /\ map' = register(map)
    /\ UNCHANGED <<State, lock, pc, op, local, result, pending, inputs, ctxCount,
                   issued, epoch>>

InitsInFlight == Cardinality({u \in Threads : pc[u] = "init_native"})

glfw_init(t) ==
    /\ CanCall(t)
    /\ ctxCount + InitsInFlight < MaxInits
    /\ Begin(t, "glfw_init", "init_native", NoLocals)

\* Faulty variant of glfw_init_native: the old GlfwState is dropped before
\* the backend is started, so a failed start leaves none.
glfw_init_native_drops_first(t) ==
    /\ At(t, "init_native")
    /\ UNCHANGED <<pending, inputs, issued, epoch, map>>
    /\ \/ /\ State' = None
          /\ Finish(t, Err(BackendInitError))
          /\ UNCHANGED ctxCount
       \/ /\ UNCHANGED State
          /\ ctxCount' = ctxCount + 1
          /\ Goto(t, "init_lock", local[t])
          /\ UNCHANGED lock

\* glfw::init(glfw::fail_on_errors), called before the lock is taken: the
\* backend starts and yields a Glfw token, or fails and `?` returns.
glfw_init_native(t) ==
    /\ At(t, "init_native")
    /\ UNCHANGED <<State, pending, inputs, issued, epoch, map>>
    /\ \/ /\ Finish(t, Err(BackendInitError))
          /\ UNCHANGED ctxCount
       \/ /\ ctxCount' = ctxCount + 1
          /\ Goto(t, "init_lock", local[t])
          /\ UNCHANGED lock

\* Faulty variant of glfw_init_store: an existing GlfwState is kept, as
\* get_or_insert would.
glfw_init_store_keep_existing(t) ==
    /\ At(t, "init_store")
    /\ State' = IF State.some THEN State ELSE GlfwState(<<>>, 1)
    /\ pending' = IF State.some THEN pending ELSE NoEvent
    /\ epoch' = IF State.some THEN epoch ELSE Len(issued)
    /\ Finish(t, Ok(Boolean(TRUE)))
    /\ UNCHANGED <<inputs, ctxCount, issued, map>>

\* *guard = Some(ThreadSafeState(state)), with state the GlfwState built at
\* lines 49-53: the previous one, with its windows and their event
\* receivers, is dropped.  Then Ok(Value::Boolean(true)).
glfw_init_store(t) ==
    /\ At(t, "init_store")
    /\ State' = GlfwState(<<>>, 1)
    /\ pending' = NoEvent
    /\ epoch' = Len(issued)
    /\ Finish(t, Ok(Boolean(TRUE)))
    /\ UNCHANGED <<inputs, ctxCount, issued, map>>

\* --------------------------------------------------- glfw_create_window
\* Calls of glfw_create_window that may still hand a handle to the host.
CreatesInFlight ==
    Cardinality({u \in Threads :
        op[u] = "glfw_create_window" /\ result[u].kind # "Err"})

\* The argument checks of glfw_create_window: arity, then the variants.
create_window_args(args) ==
    IF Len(args) # 3 THEN Err(ArityError)
    ELSE IF ~as_int_ok(args[1]) \/ ~as_int_ok(args[2]) \/ ~as_str_ok(args[3])
         THEN Err(VariantError)
         ELSE NoResult

glfw_create_window(t, args) ==
    /\ CanCall(t)
    /\ Len(issued) + CreatesInFlight < MaxIssued
    /\ IF create_window_args(args) = NoResult
       THEN Begin(t, "glfw_create_window", "cw_lock", NoLocals)
       ELSE Reject(t, "glfw_create_window", create_window_args(args))

\* Faulty variant of glfw_create_window_native: the handle is allocated
\* before the backend is asked for the window.
glfw_create_window_native_early_id(t) ==
    /\ At(t, "cw_native")
    /\ UNCHANGED <<pending, inputs, ctxCount, issued, epoch, map>>
    /\ IF ~State.some
       THEN UNCHANGED State /\ Finish(t, Err(NotInitializedError))
       ELSE /\ State' = [State EXCEPT !.next_id = @ + 1]
            /\ \/ Finish(t, Err(WindowCreationError))
               \/ Goto(t, "cw_insert", local[t]) /\ UNCHANGED lock

\* guard.as_mut().ok_or(..)?, then context.create_window(..).ok_or(..)?,
\* set_key_polling and make_current: the backend creates the window or
\* refuses.
glfw_create_window_native(t) ==
    /\ At(t, "cw_native")
    /\ UNCHANGED <<State, pending, inputs, ctxCount, issued, epoch, map>>
    /\ IF ~State.some
       THEN Finish(t, Err(NotInitializedError))
       ELSE \/ Finish(t, Err(WindowCreationError))
            \/ Goto(t, "cw_insert", local[t]) /\ UNCHANGED lock

\* let id = state.next_id; state.windows.insert(id, (window, events))
glfw_create_window_insert(t) ==
    /\ At(t, "cw_insert")
    /\ LET id == State.next_id
           w  == State.windows
       IN /\ State' = [State EXCEPT !.windows =
                          [h \in DOMAIN w \cup {id} |-> IF h = id THEN NewWindow ELSE w[h]]]
          /\ Goto(t, "cw_incr", [local[t] EXCEPT !.id = id])
    /\ UNCHANGED <<lock, pending, inputs, ctxCount, issued, epoch, map>>

\* Faulty variant of glfw_create_window_incr: the counter skips a value.
glfw_create_window_incr_skips(t) ==
    /\ At(t, "cw_incr")
    /\ State' = [State EXCEPT !.next_id = (@ + 2) % (2 ^ UsizeBits)]
    /\ Finish(t, Ok(Integer(local[t].id)))
    /\ UNCHANGED <<pending, inputs, ctxCount, issued, epoch, map>>

\* state.next_id += 1, then Ok(Value::Integer(id as i64))
glfw_create_window_incr(t) ==
    /\ At(t, "cw_incr")
    /\ State' = [State EXCEPT !.next_id = (@ + 1) % (2 ^ UsizeBits)]
    /\ Finish(t, Ok(Integer(local[t].id)))
    /\ UNCHANGED <<pending, inputs, ctxCount, issued, epoch, map>>

\* ------------------------------------------------ handle-scoped functions
\* args[0].as_int()? as usize: indexing an empty argument list panics, a
\* value of another variant is returned as the accessor's error.
handle_args(args) ==
    IF Len(args) = 0 THEN Panicked
    ELSE IF ~as_int_ok(args[1]) THEN Err(VariantError)
    ELSE NoResult

glfw_window_should_close(t, args) ==
    /\ CanCall(t)
    /\ IF handle_args(args) = NoResult
       THEN Begin(t, "glfw_window_should_close", "sc_lock",
                  [NoLocals EXCEPT !.id = as_usize(args[1].v)])
       ELSE Reject(t, "glfw_window_should_close", handle_args(args))

\* Faulty variant of should_close_result: a missing state is treated as an
\* empty registry.
should_close_result_no_init_check(s, id) ==
    IF id \in DOMAIN s.windows
    THEN Ok(Boolean(s.windows[id].should_close))
    ELSE Ok(Boolean(TRUE))

\* Faulty variant of should_close_result: an unknown handle is reported as
\* a window that is still open.
should_close_result_unknown_open(s, id) ==
    IF ~s.some THEN Err(NotInitializedError)
    ELSE IF id \in DOMAIN s.windows
         THEN Ok(Boolean(s.windows[id].should_close))
         ELSE Ok(Boolean(FALSE))

\* The value glfw_window_should_close computes under the guard.
should_close_result(s, id) ==
    IF ~s.some THEN Err(NotInitializedError)
    ELSE IF id \in DOMAIN s.windows
         THEN Ok(Boolean(s.windows[id].should_close))
         ELSE Ok(Boolean(TRUE))

glfw_window_should_close_body(t) ==
    /\ At(t, "sc_body")
    /\ UNCHANGED <<State, pending, inputs, ctxCount, issued, epoch, map>>
    /\ Finish(t, should_close_result(State, local[t].id))

glfw_swap_buffers(t, args) ==
    /\ CanCall(t)
    /\ IF handle_args(args) = NoResult
       THEN Begin(t, "glfw_swap_buffers", "sb_lock",
                  [NoLocals EXCEPT !.id = as_usize(args[1].v)])
       ELSE Reject(t, "glfw_swap_buffers", handle_args(args))

\* Faulty variant of swap_buffers_result: the state is not consulted.
swap_buffers_result_no_init_check(s, id) == Ok(Null)

\* window.swap_buffers() presents a frame; it changes nothing the bridge
\* keeps or reads back.
swap_buffers_result(s, id) ==
    IF ~s.some THEN Err(NotInitializedError) ELSE Ok(Null)

glfw_swap_buffers_body(t) ==
    /\ At(t, "sb_body")
    /\ UNCHANGED <<State, pending, inputs, ctxCount, issued, epoch, map>>
    /\ Finish(t, swap_buffers_result(State, local[t].id))

\* The argument checks of glfw_get_key: arity, then the two integers.
get_key_args(args) ==
    IF Len(args) # 2 THEN Err(ArityError)
    ELSE IF ~as_int_ok(args[1]) \/ ~as_int_ok(args[2]) THEN Err(VariantError)
    ELSE NoResult

glfw_get_key(t, args) ==
    /\ CanCall(t)
    /\ IF get_key_args(args) = NoResult
       THEN Begin(t, "glfw_get_key", "gk_lock",
                  [NoLocals EXCEPT !.id = as_usize(args[1].v),
                                   !.key = as_i32(args[2].v)])
       ELSE Reject(t, "glfw_get_key", get_key_args(args))

\* Faulty variant of key_down: a held key, which the backend reports as
\* Repeat, does not count as down.
key_down_press_only(action) == action = "Press"

\* action == Press || action == Repeat
key_down(action) == action \in {"Press", "Repeat"}

\* The values glfw_get_key can return under the guard.  For a registered
\* window the key code is transmuted to glfw::Key unchecked: a code that is
\* no discriminant of the enum is undefined behaviour, and the build may
\* answer either way (or bring the process down, see glfw_get_key_abort).
get_key_results(s, id, key) ==
    IF ~s.some THEN {Err(NotInitializedError)}
    ELSE IF id \in DOMAIN s.windows
         THEN IF key \in LegalKeys
              THEN {Ok(Boolean(key_down(s.windows[id].key)))}
              ELSE {Ok(Boolean(TRUE)), Ok(Boolean(FALSE))}
         ELSE {Ok(Boolean(FALSE))}

\* The transmute of glfw_get_key is reached with an illegal key code.
get_key_undefined(s, id, key) ==
    s.some /\ id \in DOMAIN s.windows /\ key \notin LegalKeys

glfw_get_key_body(t) ==
    /\ At(t, "gk_body")
    /\ UNCHANGED <<State, pending, inputs, ctxCount, issued, epoch, map>>
    /\ \E r \in get_key_results(State, local[t].id, local[t].key) : Finish(t, r)

\* Undefined behaviour in the transmute may also end the process.
glfw_get_key_abort(t) ==
    /\ At(t, "gk_body")
    /\ get_key_undefined(State, local[t].id, local[t].key)
    /\ pc' = [pc EXCEPT ![t] = "aborted"]
    /\ UNCHANGED <<State, lock, op, local, result, pending, inputs, ctxCount, issued, epoch, map>>

\* ------------------------------------------------- handle-less functions
glfw_poll_events(t) ==
    /\ CanCall(t)
    /\ Begin(t, "glfw_poll_events", "pe_lock", NoLocals)

\* Faulty variant of deliver: a window that receives a close request is
\* dropped from the registry.
deliver_reaps_closed(w, e) ==
    [h \in DOMAIN w \ (IF e.ev = "close" THEN {e.win} ELSE {}) |->
        IF h = e.win /\ e.ev \in Actions THEN [w[h] EXCEPT !.key = e.ev]
        ELSE w[h]]

\* What context.poll_events() does to the windows: the pending platform
\* event reaches the window it is addressed to.
deliver(w, e) ==
    [h \in DOMAIN w |->
        IF h # e.win THEN w[h]
        ELSE IF e.ev = "close" THEN [w[h] EXCEPT !.should_close = TRUE]
        ELSE IF e.ev \in Actions THEN [w[h] EXCEPT !.key = e.ev]
        ELSE w[h]]

glfw_poll_events_body(t) ==
    /\ At(t, "pe_body")
    /\ UNCHANGED <<inputs, ctxCount, issued, epoch, map>>
    /\ IF ~State.some
       THEN /\ UNCHANGED <<State, pending>>
            /\ Finish(t, Err(NotInitializedError))
       ELSE /\ State' = [State EXCEPT !.windows = deliver(@, pending)]
            /\ pending' = NoEvent
            /\ Finish(t, Ok(Null))

glfw_get_time(t) ==
    /\ CanCall(t)
    /\ Begin(t, "glfw_get_time", "gt_lock", NoLocals)

\* context.get_time(): the backend's clock, not modelled beyond its type.
glfw_get_time_body(t) ==
    /\ At(t, "gt_body")
    /\ UNCHANGED <<State, pending, inputs, ctxCount, issued, epoch, map>>
    /\ Finish(t, IF ~State.some THEN Err(NotInitializedError) ELSE Ok(Float(0)))

glfw_get_proc_address(t) ==
    /\ CanCall(t)
    /\ Begin(t, "glfw_get_proc_address", "gpa_body", NoLocals)

\* Faulty variant of glfw_get_proc_address_body: the address is handed out
\* only once a context exists, as the other handle-less functions do.
glfw_get_proc_address_body_needs_context(t) ==
    /\ At(t, "gpa_body")
    /\ UNCHANGED <<State, pending, inputs, ctxCount, issued, epoch, map>>
    /\ Finish(t, IF ~State.some THEN Err(NotInitializedError)
                               ELSE Ok(Integer(ProcAddress)))

\* glfwGetProcAddress as usize as i64; STATE is not consulted.
glfw_get_proc_address_body(t) ==
    /\ At(t, "gpa_body")
    /\ UNCHANGED <<State, pending, inputs, ctxCount, issued, epoch, map>>
    /\ Finish(t, Ok(Integer(ProcAddress)))

\* ------------------------------------------------------------ environment
\* The user closes a window or works the tracked key: the platform queues
\* the event until the next poll.
UserInput(h, ev) ==
    /\ Alive
    /\ State.some
    /\ h \in DOMAIN State.windows
    /\ pending = NoEvent
    /\ inputs < MaxInputs
    /\ pending' = [win |-> h, ev |-> ev]
    /\ inputs' = inputs + 1
    /\ UNCHANGED <<State, lock, pc, op, local, result, ctxCount, issued, epoch, map>>

\* ------------------------------------------------------- specification
Next ==
    \/ \E t \in Threads : glfw_init(t)
    \/ \E t \in Threads : glfw_init_native(t)
    \/ \E t \in Threads : glfw_init_store(t)
    \/ \E t \in Threads, args \in CreateArgs : glfw_create_window(t, args)
    \/ \E t \in Threads : glfw_create_window_native(t)
    \/ \E t \in Threads : glfw_create_window_insert(t)
    \/ \E t \in Threads : glfw_create_window_incr(t)
    \/ \E t \in Threads, args \in HandleArgs : glfw_window_should_close(t, args)
    \/ \E t \in Threads : glfw_window_should_close_body(t)
    \/ \E t \in Threads, args \in HandleArgs : glfw_swap_buffers(t, args)
    \/ \E t \in Threads : glfw_swap_buffers_body(t)
    \/ \E t \in Threads, args \in KeyArgs : glfw_get_key(t, args)
    \/ \E t \in Threads : glfw_get_key_body(t)
    \/ \E t \in Threads : glfw_get_key_abort(t)
    \/ \E t \in Threads : glfw_poll_events(t)
    \/ \E t \in Threads : glfw_poll_events_body(t)
    \/ \E t \in Threads : glfw_get_time(t)
    \/ \E t \in Threads : glfw_get_time_body(t)
    \/ \E t \in Threads : glfw_get_proc_address(t)
    \/ \E t \in Threads : glfw_get_proc_address_body(t)
    \/ \E t \in Threads : Lock(t)
    \/ \E t \in Threads : Return(t)
    \/ \E h \in 1..MaxIssued, ev \in EventKinds : UserInput(h, ev)

Spec == Init /\ [][Next]_vars

\* A step of thread t inside the bridge function it has entered, other
\* than the acquisition of the Mutex: native calls return and the thread
\* is scheduled.
Advance(t) ==
    \/ glfw_init_native(t) \/ glfw_init_store(t)
    \/ glfw_create_window_native(t) \/ glfw_create_window_insert(t)
    \/ glfw_create_window_incr(t)
    \/ glfw_window_should_close_body(t) \/ glfw_swap_buffers_body(t)
    \/ glfw_get_key_body(t) \/ glfw_get_key_abort(t)
    \/ glfw_poll_events_body(t) \/ glfw_get_time_body(t)
    \/ glfw_get_proc_address_body(t)
    \/ Return(t)

\* Fair scheduling of the callers: a thread inside a function keeps
\* running, and a thread waiting at STATE.lock() is not passed over for
\* ever while the Mutex keeps becoming free.
Fairness == \A t \in Threads : WF_vars(Advance(t)) /\ SF_vars(Lock(t))

FairSpec == Spec /\ Fairness

TypeOK ==
    /\ lock \in {0} \cup Threads
    /\ State.some \in BOOLEAN
    /\ inputs \in 0..MaxInputs
    /\ ctxCount \in 0..MaxInits
    /\ Len(issued) <= MaxIssued
    /\ epoch \in 0..Len(issued)
    /\ \A k \in DOMAIN map : map[k] \in HostFns \cup {Registrations[i][2] : i \in DOMAIN Registrations}

\* ---------------------------------------------------------- registration
\* Names the table may already hold when _aegis_register is called: the
\* host's own, and bridge names bound by an earlier load or by the host.
PriorNames == HostNames \cup {"glfw_init", "glfw_get_key"}

\* The tables the host may pass to _aegis_register.
HostMaps == UNION {[names -> HostFns] : names \in SUBSET PriorNames}

\* What STATE may hold, with its history, when the host loads the library
\* or loads it again: no context, a context, a context with windows.
LoadStates ==
    { [state |-> None,                                  n |-> 0, handles |-> <<>>],
      [state |-> GlfwState(<<>>, 1),                     n |-> 1, handles |-> <<>>],
      [state |-> GlfwState(<<NewWindow>>, 2),            n |-> 1, handles |-> <<1>>],
      [state |-> GlfwState(<<NewWindow, NewWindow>>, 3), n |-> 1, handles |-> <<1, 2>>] }

\* The host is about to load the library: no bridge function is running.
InitRegister ==
    /\ \E s \in LoadStates :
          /\ State = s.state
          /\ ctxCount = s.n
          /\ issued = s.handles
    /\ map \in HostMaps
    /\ lock = 0
    /\ pc = [t \in Threads |-> "idle"]
    /\ op = [t \in Threads |-> "none"]
    /\ local = [t \in Threads |-> NoLocals]
    /\ result = [t \in Threads |-> NoResult]
    /\ pending = NoEvent
    /\ inputs = 0
    /\ epoch = 0

NextRegister == aegis_register

SpecRegister == InitRegister /\ [][NextRegister]_vars

\* ------------------------------------------------------------ vocabulary
\* The handles returned to the host so far, over the whole process.
IssuedHandles == {issued[i] : i \in DOMAIN issued}

\* The handles returned under the GlfwState that is in STATE now.
IssuedNow == SubSeq(issued, epoch + 1, Len(issued))

\* Thread t is about to hand `result[t]` to the host from function f.
Returning(t, f) == pc[t] = "ret" /\ op[t] = f

\* Thread t is about to return from f, having run its body under the guard
\* it still holds: STATE is as the body found and left it.
ReturningLocked(t, f) == Returning(t, f) /\ lock = t

HandleOps == {"glfw_window_should_close", "glfw_swap_buffers", "glfw_get_key"}

\* Thread t is inside a bridge function, past any wait for the Mutex.
Running(t) == pc[t] \notin {"idle", "panicked", "aborted"} \cup DOMAIN AfterLock

\* -------------------------------------------------------------- claims
\* C1: the handles returned by successful create_window calls are strictly
\* increasing integers starting at 1, none returned twice in the lifetime
\* of the process, whatever init calls come in between.
C1_HandlesStrictlyIncreasing ==
    /\ Len(issued) > 0 => issued[1] = 1
    /\ \A i, j \in DOMAIN issued : i < j => issued[i] < issued[j]

\* C2: a handle that create_window has returned is a key of the registry
\* in every later state.
C2_IssuedStaysRegistered ==
    \A i \in DOMAIN issued : State.some /\ issued[i] \in DOMAIN State.windows

\* C3: when N create_window calls on one context have succeeded, however
\* their callers interleaved, the registry holds exactly N entries under N
\* distinct handles, the handles returned, and the counter stands at N + 1.
C3_ConcurrentCreates ==
    (lock = 0 /\ State.some) =>
        LET N == Len(IssuedNow)
            returned == {IssuedNow[i] : i \in 1..N}
        IN /\ Cardinality(returned) = N
           /\ DOMAIN State.windows = returned
           /\ Cardinality(DOMAIN State.windows) = N
           /\ State.next_id = N + 1

\* Two create_window calls overlap on one context: one is returning
\* handle 1 under the guard while the other waits for the Mutex.
C3_Witness ==
    \E a, b \in Threads :
        /\ ReturningLocked(a, "glfw_create_window")
        /\ result[a] = Ok(Integer(1))
        /\ pc[b] = "cw_lock"

\* C4: every operation holds the global lock from its first step to its
\* last, its native backend calls included.
C4_LockHeldThroughout == \A t \in Threads : Running(t) => lock = t

\* C5: should_close, swap_buffers and get_key, executed while no init has
\* succeeded, return NotInitializedError whatever handle was passed.
C5_NotInitialized ==
    \A t \in Threads, f \in HandleOps :
        (ReturningLocked(t, f) /\ ~State.some)
            => result[t] = Err(NotInitializedError)

\* get_key is returning NotInitializedError, for a handle that no registry
\* holds, and there is no context.
C5_Witness ==
    \E t \in Threads :
        /\ ReturningLocked(t, "glfw_get_key") /\ ~State.some
        /\ local[t].id = as_usize(-1)
        /\ result[t] = Err(NotInitializedError)

\* What the three handle-scoped functions return for an unknown handle.
UnknownHandleFallback(t) ==
    /\ op[t] = "glfw_window_should_close" => result[t] = Ok(Boolean(TRUE))
    /\ op[t] = "glfw_swap_buffers" => result[t] = Ok(Null)
    /\ op[t] = "glfw_get_key" => result[t] = Ok(Boolean(FALSE))

\* C6 as stated: for a handle never returned by create_window, in every
\* reachable state, should_close yields true, swap_buffers null and get_key
\* false, never an error.
C6_UnknownHandleAnyState ==
    \A t \in Threads, f \in HandleOps :
        (ReturningLocked(t, f) /\ local[t].id \notin IssuedHandles)
            => UnknownHandleFallback(t)

\* C6 as amended: for a handle never returned by create_window, in every
\* reachable state in which a context exists, should_close yields true,
\* swap_buffers null and get_key false, never an error.
C6_UnknownHandle ==
    \A t \in Threads, f \in HandleOps :
        (ReturningLocked(t, f) /\ State.some /\ local[t].id \notin IssuedHandles)
            => UnknownHandleFallback(t)

\* should_close is answering true for handle 2 on a context that holds
\* window 1 only, still open.
C6_Witness ==
    \E t \in Threads :
        /\ ReturningLocked(t, "glfw_window_should_close")
        /\ State.some /\ DOMAIN State.windows = {1}
        /\ ~State.windows[1].should_close
        /\ local[t].id = 2 /\ 2 \notin IssuedHandles
        /\ result[t] = Ok(Boolean(TRUE))

\* C7: a create_window call that fails, for whichever reason, has left the
\* counter and the registry as they were: none of its steps changed STATE.
C7_FailedCreateLeavesState ==
    \A t \in Threads :
        (Returning(t, "glfw_create_window") /\ result[t].kind = "Err")
            => ~local[t].dirty

\* The backend has refused a window on a context that already holds one.
C7_Witness ==
    \E t \in Threads :
        /\ ReturningLocked(t, "glfw_create_window")
        /\ result[t] = Err(WindowCreationError)
        /\ DOMAIN State.windows = {1} /\ State.next_id = 2

\* C8: a successful init replaces the whole state: when it returns the
\* registry is empty and the next handle is 1, so every handle issued
\* before is an unknown handle; and init fails for no other reason than
\* the backend's.
C8_InitReplacesState ==
    \A t \in Threads :
        Returning(t, "glfw_init") =>
            IF result[t].kind = "Ok"
            THEN /\ State = GlfwState(<<>>, 1)
                 /\ \A h \in IssuedHandles :
                       /\ should_close_result(State, h) = Ok(Boolean(TRUE))
                       /\ swap_buffers_result(State, h) = Ok(Null)
                       /\ \A k \in {KeyA, BadKey} :
                             get_key_results(State, h, k) = {Ok(Boolean(FALSE))}
            ELSE result[t] = Err(BackendInitError)

\* An init is returning success on a process that had a context and had
\* issued a handle under it.
C8_Witness ==
    \E t \in Threads :
        /\ Returning(t, "glfw_init") /\ result[t].kind = "Ok"
        /\ ctxCount > 1 /\ issued # <<>>

\* C9: at most one Windowing Context is ever created in the process.
C9_AtMostOneContext == ctxCount <= 1

\* C10 as stated: while no context exists, every operation other than init
\* fails: what it hands back (or unwinds with) is no success value.
C10_AllFailWithoutContext ==
    \A t \in Threads :
        (pc[t] \in {"ret", "panicked"} /\ ~State.some /\ op[t] # "glfw_init")
            => result[t].kind \in {"Err", "Panic"}

\* C10 as amended: while no context exists, every operation other than
\* init and get_proc_address fails.
C10_FailWithoutContext ==
    \A t \in Threads :
        (pc[t] \in {"ret", "panicked"} /\ ~State.some
           /\ op[t] \notin {"glfw_init", "glfw_get_proc_address"})
            => result[t].kind \in {"Err", "Panic"}

\* poll_events is failing for want of a context.
C10_Witness ==
    \E t \in Threads :
        /\ ReturningLocked(t, "glfw_poll_events") /\ ~State.some
        /\ result[t] = Err(NotInitializedError)

\* C11: get_proc_address succeeds in every state, before any init and
\* after it, always with the same address, and changes nothing of the
\* context, the registry or the handle counter.
C11_ProcAddressAlways ==
    \A t \in Threads :
        Returning(t, "glfw_get_proc_address") =>
            /\ result[t] = Ok(Integer(ProcAddress))
            /\ ~local[t].dirty

\* get_proc_address is returning the address in a process that has never
\* had a context.
C11_Witness ==
    \E t \in Threads :
        /\ Returning(t, "glfw_get_proc_address")
        /\ ~State.some /\ ctxCount = 0
        /\ result[t] = Ok(Integer(ProcAddress))

\* The argument lists the interface table allows for each function.
WellFormedCreate(args) ==
    Len(args) = 3 /\ args[1].tag = "Integer" /\ args[2].tag = "Integer"
                  /\ args[3].tag = "String"
WellFormedHandle(args) == Len(args) = 1 /\ args[1].tag = "Integer"
WellFormedKey(args) ==
    Len(args) = 2 /\ args[1].tag = "Integer" /\ args[2].tag = "Integer"

\* Thread t is handed an ArgumentError by this step, the state untouched.
GetsArgumentError(t) ==
    /\ pc'[t] = "ret"
    /\ result'[t].kind = "Err" /\ result'[t].tag \in ArgumentErrors
    /\ State' = State

\* C12: create_window, should_close, swap_buffers and get_key, called with
\* the wrong number of arguments or an argument of the wrong variant (the
\* empty list included), return an ArgumentError and leave the state
\* unchanged; they neither crash nor succeed.
C12_MalformedArguments ==
    [][\A t \in Threads :
          /\ \A args \in CreateArgs :
                (~WellFormedCreate(args) /\ glfw_create_window(t, args))
                    => GetsArgumentError(t)
          /\ \A args \in HandleArgs :
                (~WellFormedHandle(args)
                   /\ (glfw_window_should_close(t, args) \/ glfw_swap_buffers(t, args)))
                    => GetsArgumentError(t)
          /\ \A args \in KeyArgs :
                (~WellFormedKey(args) /\ glfw_get_key(t, args))
                    => GetsArgumentError(t)]_vars

\* The eight names of the interface table.
BridgeNames ==
    {"glfw_init", "glfw_create_window", "glfw_window_should_close",
     "glfw_poll_events", "glfw_swap_buffers", "glfw_get_proc_address",
     "glfw_get_key", "glfw_get_time"}

\* C13: registration puts exactly the eight fixed names into the host's
\* table, each bound to its own bridge function, leaves every other entry
\* as it was, does not touch the window state, and a second registration
\* yields the table of the first.
C13_Registration ==
    [][map' # map =>
          /\ Cardinality(BridgeNames) = 8
          /\ DOMAIN map' = DOMAIN map \cup BridgeNames
          /\ \A k \in BridgeNames : map'[k] = k
          /\ \A k \in DOMAIN map \ BridgeNames : map'[k] = map[k]
          /\ <<State, lock, pc, op, local, result, pending>>'
               = <<State, lock, pc, op, local, result, pending>>
          /\ register(map') = map']_vars

\* The library has been registered into a table that held a host entry and
\* a stale binding of a bridge name, while a context with a window exists.
C13_Witness ==
    /\ BridgeNames \subseteq DOMAIN map
    /\ map["glfw_get_key"] = "glfw_get_key"
    /\ "len" \in DOMAIN map /\ map["len"] = "host_print"
    /\ State.some /\ DOMAIN State.windows = {1}

\* The native close flag of window h, as the registry in s holds it.
CloseFlag(s, h) == s.some /\ h \in DOMAIN s.windows /\ s.windows[h].should_close

\* C14: for a handle h returned by create_window, should_close(h) answers
\* false from the creation of the window until a poll_events call delivers
\* a close request for it, never true without one, and once true it is
\* true in every later state: the entry of h is never removed.
C14_ShouldCloseMonotone ==
    [][/\ \A t \in Threads :
            (ReturningLocked(t, "glfw_window_should_close")
               /\ local[t].id \in IssuedHandles)'
            => /\ (local[t].id \in DOMAIN State.windows)'
               /\ (result[t] = Ok(Boolean(CloseFlag(State, local[t].id))))'
       /\ \A h \in IssuedHandles :
            /\ CloseFlag(State, h) => CloseFlag(State, h)'
            /\ (~CloseFlag(State, h) /\ CloseFlag(State, h)')
                 => /\ pending = [win |-> h, ev |-> "close"]
                    /\ \E t \in Threads : pc[t] = "pe_body" /\ pc'[t] = "ret"]_vars

\* Thread t is taking the step of poll_events that delivers the events.
Polls(t) == pc[t] = "pe_body" /\ pc'[t] = "ret"

\* C15: get_key(h, k) on a registered handle answers true exactly when the
\* native state of key k of that window is pressed or repeated: false on a
\* window no poll_events has reached, true once a press of k has been
\* delivered by poll_events, and the key state of a window changes only
\* in a poll_events call.
C15_KeyFollowsPolledState ==
    [][/\ \A t \in Threads :
            (ReturningLocked(t, "glfw_get_key") /\ State.some
               /\ local[t].id \in DOMAIN State.windows
               /\ local[t].key \in LegalKeys)'
            => (result[t] = Ok(Boolean(State.windows[local[t].id].key = "Press"
                                       \/ State.windows[local[t].id].key = "Repeat")))'
       /\ \A h \in DOMAIN State'.windows :
            IF h \in DOMAIN State.windows
            THEN /\ State'.windows[h].key # State.windows[h].key
                      => \E t \in Threads : Polls(t)
                 /\ ((\E t \in Threads : Polls(t)) /\ pending = [win |-> h, ev |-> "Press"])
                      => State'.windows[h].key = "Press"
            ELSE State'.windows[h].key = "Release"]_vars

\* get_key answers true for a window whose key was pressed, the press
\* having been delivered by a poll_events call.
C15_Witness ==
    \E t \in Threads :
        /\ ReturningLocked(t, "glfw_get_key")
        /\ local[t].id \in DOMAIN State.windows /\ local[t].key = KeyA
        /\ State.windows[local[t].id].key = "Press"
        /\ pending = NoEvent /\ inputs = 1
        /\ result[t] = Ok(Boolean(TRUE))

\* C16: get_key on a registered handle with a key code outside the legal
\* set fails with an ArgumentError; the unchecked integer never reaches
\* the native key query.
C16_IllegalKeyRejected ==
    \A t \in Threads :
        /\ pc[t] # "aborted"
        /\ (ReturningLocked(t, "glfw_get_key")
              /\ get_key_undefined(State, local[t].id, local[t].key))
           => (result[t].kind = "Err" /\ result[t].tag \in ArgumentErrors)

\* C17: an init that fails with BackendInitError leaves the process-wide
\* state exactly as it was, an existing context with its windows and
\* counter or none; and an operation that fails with NotInitializedError
\* leaves the state uninitialized.
C17_FailuresLeaveState ==
    \A t \in Threads :
        /\ (Returning(t, "glfw_init") /\ result[t].kind = "Err")
              => (result[t] = Err(BackendInitError) /\ ~local[t].dirty)
        /\ (pc[t] = "ret" /\ result[t] = Err(NotInitializedError))
              => (~local[t].dirty /\ ~State.some)

\* An init is failing while a context with a registered window exists.
C17_Witness ==
    \E t \in Threads :
        /\ Returning(t, "glfw_init")
        /\ result[t] = Err(BackendInitError)
        /\ State.some /\ 1 \in DOMAIN State.windows /\ State.next_id = 2

C19_RegistryDense ==
    (State.some /\ \A t \in Threads : pc[t] # "cw_incr")
        => /\ DOMAIN State.windows = 1 .. (State.next_id - 1)
           /\ State.next_id = Cardinality(DOMAIN State.windows) + 1

\* Two windows are registered and the Mutex is free.
C19_Witness ==
    /\ State.some /\ lock = 0
    /\ DOMAIN State.windows = {1, 2} /\ State.next_id = 3

\* What claim C20 speaks of: whether a context exists, the registered
\* handles, and the next-handle counter.
Registry(s) == <<s.some, DOMAIN s.windows, s.next_id>>

QueryOps == {"glfw_window_should_close", "glfw_swap_buffers", "glfw_get_key",
             "glfw_get_time", "glfw_poll_events"}

\* C20: should_close, swap_buffers, get_key, get_time and poll_events never
\* change whether the context is initialized, the set of registered
\* handles or the next-handle counter, whether they succeed, fail or meet
\* an unknown handle; only init and a successful create_window do.
C20_OnlyInitAndCreateChangeRegistry ==
    [][/\ \A t \in Threads :
            (pc'[t] # pc[t] /\ (op[t] \in QueryOps \/ op'[t] \in QueryOps))
                => Registry(State)' = Registry(State)
       /\ Registry(State)' # Registry(State)
            => \E t \in Threads :
                  /\ pc'[t] # pc[t]
                  /\ \/ op[t] = "glfw_init" /\ result'[t] = Ok(Boolean(TRUE))
                     \/ op[t] = "glfw_create_window" /\ result'[t].kind # "Err"]_vars

\* poll_events has delivered a close request to window 1: the window's
\* flag is set, and the window is still registered.
C20_Witness ==
    \E t \in Threads :
        /\ ReturningLocked(t, "glfw_poll_events")
        /\ result[t] = Ok(Null) /\ local[t].dirty
        /\ DOMAIN State.windows = {1} /\ State.windows[1].should_close
        /\ State.next_id = 2
====
